---- MODULE Spec2Model ----
(***************************************************************************)
(* btcwire: the message framing codec (WriteMessage / ReadMessage /       *)
(* discardInput / makeEmptyMessage) and the version message codec         *)
(* (MsgVersion.BtcEncode / BtcDecode / MaxPayloadLength).                 *)
(*                                                                         *)
(* Bytes are integers 0..255 and byte strings are sequences of bytes.     *)
(* 64-bit quantities are kept as four 16-bit limbs, most significant      *)
(* first, and 32-bit network ids as two limbs, so that every value of the *)
(* wire formats is representable; int32 fields are integers.  The header  *)
(* length field is an integer, see Uint32.                                 *)
(***************************************************************************)
EXTENDS Integers, Sequences, FiniteSets, TLC

(***************************************************************************)
(* Program constants.                                                      *)
(***************************************************************************)
commandSize == 12

maxMessagePayload == 33554432

MaxUserAgentLen == 2000

\* discardInput: maxSize := uint32(10 * 1024)
discardMaxSize == 10240

\* Size of the message header: magic 4 + command 12 + length 4 + checksum 4.
headerSize == 4 + commandSize + 4 + 4

\* From the primitive codec (outside the framing files).
maxVarIntPayload == 9

NetAddressTimeVersion == 31402

(***************************************************************************)
(* Byte-string helpers.                                                    *)
(***************************************************************************)
Byte == 0..255

Min(a, b) == IF a < b THEN a ELSE b

Zeros(n) == [i \in 1..n |-> 0]

(***************************************************************************)
(* Primitive codec: fixed-width integers in the protocol's byte order.    *)
(***************************************************************************)
PutUint16LE(v) == <<v % 256, (v \div 256) % 256>>

PutUint16BE(v) == <<(v \div 256) % 256, v % 256>>

Uint16LE(b) == b[1] + 256 * b[2]

Uint16BE(b) == 256 * b[1] + b[2]

\* uint32 / int32 as an integer: low half, then high half, little endian.
\* A negative int32 is written in two's complement (floor division and
\* non-negative modulus give the sign extension).
PutInt32(v) == PutUint16LE(v % 65536) \o PutUint16LE((v \div 65536) % 65536)

Int32(b) ==
    LET lo == Uint16LE(SubSeq(b, 1, 2))
        hi == Uint16LE(SubSeq(b, 3, 4))
    IN  IF hi >= 32768 THEN (hi - 65536) * 65536 + lo ELSE hi * 65536 + lo

\* uint32 read as an unsigned value.  The values from 2^31 on are all kept
\* as 2^31 - 1: like them it is above every limit a length is compared
\* with, and a length above the limits is not used for anything else.
Uint32(b) ==
    IF b[4] >= 128 THEN 2147483647
    ELSE Uint16LE(SubSeq(b, 3, 4)) * 65536 + Uint16LE(SubSeq(b, 1, 2))

PutUint32(v) == PutInt32(v)

\* A BitcoinNet (uint32) kept as <<high limb, low limb>>.
PutNet(net) == PutUint16LE(net[2]) \o PutUint16LE(net[1])

Net(b) == <<Uint16LE(SubSeq(b, 3, 4)), Uint16LE(SubSeq(b, 1, 2))>>

\* A 64-bit value kept as <<l3, l2, l1, l0>>, l3 the most significant limb.
PutUint64(v) ==
    PutUint16LE(v[4]) \o PutUint16LE(v[3]) \o PutUint16LE(v[2]) \o PutUint16LE(v[1])

Uint64(b) ==
    << Uint16LE(SubSeq(b, 7, 8)), Uint16LE(SubSeq(b, 5, 6)),
       Uint16LE(SubSeq(b, 3, 4)), Uint16LE(SubSeq(b, 1, 2)) >>

U64(n) == <<0, 0, (n \div 65536) % 65536, n % 65536>>

(***************************************************************************)
(* Primitive codec: variable-length integers and strings.                 *)
(* A read from a byte source is modelled on (b, off): b the bytes of the  *)
(* source and off the number of bytes already consumed; a read that finds *)
(* too few bytes fails with an I/O error.                                  *)
(***************************************************************************)
Avail(b, off) == Len(b) - off

WriteVarInt(n) ==
    IF n < 253 THEN <<n>>
    ELSE IF n <= 65535 THEN <<253>> \o PutUint16LE(n)
    ELSE <<254>> \o PutUint32(n)

WriteVarString(str) == WriteVarInt(Len(str)) \o str

\* [err, val, off]; big is TRUE when the count does not fit the model's
\* integers (it then exceeds every byte source of the model).
ReadVarInt(b, off) ==
    IF Avail(b, off) < 1 THEN [err |-> "io", val |-> 0, big |-> FALSE, off |-> Len(b)]
    ELSE
      LET d == b[off + 1] IN
      CASE d = 255 ->
             IF Avail(b, off + 1) < 8
             THEN [err |-> "io", val |-> 0, big |-> FALSE, off |-> Len(b)]
             ELSE LET x == SubSeq(b, off + 2, off + 9) IN
                  IF x[4] >= 128 \/ SubSeq(x, 5, 8) # <<0, 0, 0, 0>>
                  THEN [err |-> "nil", val |-> 0, big |-> TRUE, off |-> off + 9]
                  ELSE [err |-> "nil", val |-> Uint32(SubSeq(x, 1, 4)),
                        big |-> FALSE, off |-> off + 9]
        [] d = 254 ->
             IF Avail(b, off + 1) < 4
             THEN [err |-> "io", val |-> 0, big |-> FALSE, off |-> Len(b)]
             ELSE LET x == SubSeq(b, off + 2, off + 5) IN
                  IF x[4] >= 128
                  THEN [err |-> "nil", val |-> 0, big |-> TRUE, off |-> off + 5]
                  ELSE [err |-> "nil", val |-> Uint32(x), big |-> FALSE, off |-> off + 5]
        [] d = 253 ->
             IF Avail(b, off + 1) < 2
             THEN [err |-> "io", val |-> 0, big |-> FALSE, off |-> Len(b)]
             ELSE [err |-> "nil", val |-> Uint16LE(SubSeq(b, off + 2, off + 3)),
                   big |-> FALSE, off |-> off + 3]
        [] OTHER -> [err |-> "nil", val |-> d, big |-> FALSE, off |-> off + 1]

\* [err, str, off]
ReadVarString(b, off) ==
    LET c == ReadVarInt(b, off) IN
    IF c.err # "nil" THEN [err |-> c.err, str |-> <<>>, off |-> c.off]
    ELSE IF c.big \/ c.val > Avail(b, c.off)
         THEN [err |-> "io", str |-> <<>>, off |-> Len(b)]
         ELSE [err |-> "nil", str |-> SubSeq(b, c.off + 1, c.off + c.val),
               off |-> c.off + c.val]

(***************************************************************************)
(* Primitive codec: network address records, as the version message uses  *)
(* them (no timestamp field): services 8 bytes, IP 16 bytes, port 2 bytes *)
(* big endian.                                                             *)
(***************************************************************************)
netAddressSize == 26

MaxNetAddressPayload(pver) ==
    IF pver >= NetAddressTimeVersion THEN netAddressSize + 4 ELSE netAddressSize

WriteNetAddress(na) == PutUint64(na.Services) \o na.IP \o PutUint16BE(na.Port)

\* [err, na, off]
ReadNetAddress(b, off) ==
    IF Avail(b, off) < netAddressSize
    THEN [err |-> "io", off |-> Len(b),
          na |-> [Services |-> U64(0), IP |-> Zeros(16), Port |-> 0]]
    ELSE [err |-> "nil", off |-> off + netAddressSize,
          na |-> [Services |-> Uint64(SubSeq(b, off + 1, off + 8)),
                  IP |-> SubSeq(b, off + 9, off + 24),
                  Port |-> Uint16BE(SubSeq(b, off + 25, off + 26))]]

(***************************************************************************)
(* DoubleSha256 is outside the framing files.  It is modelled by a 32-bit  *)
(* digest of the bytes: the byte sum plus the length.  Like the hash it   *)
(* is a function of the exact bytes; unlike the hash it provably changes  *)
(* under every single-byte substitution (and collides under others).      *)
(***************************************************************************)
RECURSIVE ByteSum(_, _, _)
ByteSum(b, lo, hi) ==
    CASE lo > hi -> 0
      [] hi - lo = 0 -> b[lo]
      [] hi - lo = 1 -> b[lo] + b[hi]
      [] hi - lo = 2 -> b[lo] + b[lo + 1] + b[hi]
      [] hi - lo = 3 -> b[lo] + b[lo + 1] + b[lo + 2] + b[hi]
      [] OTHER -> LET mid == (lo + hi) \div 2
                  IN  ByteSum(b, lo, mid) + ByteSum(b, mid + 1, hi)

\* The digest of b followed by zeros zero bytes.
DoubleSha256Tail(b, zeros) == PutUint32((ByteSum(b, 1, Len(b)) + Len(b) + zeros) % 65521)

DoubleSha256(b) == PutUint32((ByteSum(b, 1, Len(b)) + Len(b)) % 65521)

(***************************************************************************)
(* Commands (ASCII byte strings) and the Message interface.                *)
(***************************************************************************)
cmdVersion == <<118, 101, 114, 115, 105, 111, 110>>

cmdVerAck == <<118, 101, 114, 97, 99, 107>>

cmdGetAddr == <<103, 101, 116, 97, 100, 100, 114>>

cmdAddr == <<97, 100, 100, 114>>

cmdGetBlocks == <<103, 101, 116, 98, 108, 111, 99, 107, 115>>

cmdInv == <<105, 110, 118>>

cmdGetData == <<103, 101, 116, 100, 97, 116, 97>>

cmdNotFound == <<110, 111, 116, 102, 111, 117, 110, 100>>

cmdBlock == <<98, 108, 111, 99, 107>>

cmdTx == <<116, 120>>

cmdGetHeaders == <<103, 101, 116, 104, 101, 97, 100, 101, 114, 115>>

cmdHeaders == <<104, 101, 97, 100, 101, 114, 115>>

cmdPing == <<112, 105, 110, 103>>

cmdPong == <<112, 111, 110, 103>>

cmdAlert == <<97, 108, 101, 114, 116>>

cmdMemPool == <<109, 101, 109, 112, 111, 111, 108>>

\* The zero time.Time (January 1, year 1): -62135596800 seconds.
ZeroTime == [sec |-> <<65535, 65521, 34926, 2304>>, nsec |-> 0]

ZeroNetAddress == [Services |-> U64(0), IP |-> <<>>, Port |-> 0]

\* &MsgVersion{}
EmptyMsgVersion ==
    [kind |-> "version", ProtocolVersion |-> 0, Services |-> U64(0),
     Timestamp |-> ZeroTime, AddrYou |-> ZeroNetAddress, AddrMe |-> ZeroNetAddress,
     Nonce |-> U64(0), UserAgent |-> <<>>, LastBlock |-> 0]

NoMessage == [kind |-> "nil"]

\* Message types whose payload is empty (MsgVerAck, MsgGetAddr, MsgMemPool).
EmptyPayloadKinds == {"verack", "getaddr", "mempool"}

(***************************************************************************)
(* MsgVersion                                                              *)
(***************************************************************************)
\* Timestamp.Unix(): the whole seconds, the sub-second part dropped.
TimeToUnix(t) == t.sec

\* time.Unix(sec, 0)
TimeFromUnix(sec) == [sec |-> sec, nsec |-> 0]

\* msgversion.go:115
EncodeUserAgentTooLong_Off(ua) == Len(ua) > MaxUserAgentLen + 1

EncodeUserAgentTooLong(ua) == Len(ua) > MaxUserAgentLen

\* msgversion.go:97
DecodeUserAgentTooLong_Skipped(ua) == FALSE

DecodeUserAgentTooLong(ua) == Len(ua) > MaxUserAgentLen

\* The bytes of the fields in the order BtcEncode writes them.
MsgVersionWire_AddrSwapped(msg) ==
    PutInt32(msg.ProtocolVersion) \o PutUint64(msg.Services)
        \o PutUint64(TimeToUnix(msg.Timestamp))
        \o WriteNetAddress(msg.AddrMe)
        \o WriteNetAddress(msg.AddrYou)
        \o PutUint64(msg.Nonce)
        \o WriteVarString(msg.UserAgent)
        \o PutInt32(msg.LastBlock)

MsgVersionWire(msg) ==
    PutInt32(msg.ProtocolVersion) \o PutUint64(msg.Services)
        \o PutUint64(TimeToUnix(msg.Timestamp))
        \o WriteNetAddress(msg.AddrYou)
        \o WriteNetAddress(msg.AddrMe)
        \o PutUint64(msg.Nonce)
        \o WriteVarString(msg.UserAgent)
        \o PutInt32(msg.LastBlock)

\* [err, out]: out is what the sink received.
MsgVersionBtcEncode(msg, pver) ==
    IF EncodeUserAgentTooLong(msg.UserAgent)
    THEN [err |-> "user agent too long", out |-> <<>>]
    ELSE [err |-> "nil", out |-> MsgVersionWire(msg)]

\* [err, msg]: msg is the receiver as BtcDecode leaves it.
MsgVersionBtcDecode(msg, b, pver) ==
    IF Avail(b, 0) < 4 THEN [err |-> "io", msg |-> msg] ELSE
    LET m1 == [msg EXCEPT !.ProtocolVersion = Int32(SubSeq(b, 1, 4))] IN
    IF Avail(b, 4) < 8 THEN [err |-> "io", msg |-> m1] ELSE
    LET m2 == [m1 EXCEPT !.Services = Uint64(SubSeq(b, 5, 12))] IN
    IF Avail(b, 12) < 8 THEN [err |-> "io", msg |-> m2] ELSE
    LET m3  == [m2 EXCEPT !.Timestamp = TimeFromUnix(Uint64(SubSeq(b, 13, 20)))]
        you == ReadNetAddress(b, 20)
    IN
    IF you.err # "nil" THEN [err |-> you.err, msg |-> m3] ELSE
    LET m4 == [m3 EXCEPT !.AddrYou = you.na]
        me == ReadNetAddress(b, you.off)
    IN
    IF me.err # "nil" THEN [err |-> me.err, msg |-> m4] ELSE
    LET m5 == [m4 EXCEPT !.AddrMe = me.na] IN
    IF Avail(b, me.off) < 8 THEN [err |-> "io", msg |-> m5] ELSE
    LET m6 == [m5 EXCEPT !.Nonce = Uint64(SubSeq(b, me.off + 1, me.off + 8))]
        ua == ReadVarString(b, me.off + 8)
    IN
    IF ua.err # "nil" THEN [err |-> ua.err, msg |-> m6] ELSE
    IF DecodeUserAgentTooLong(ua.str)
    THEN [err |-> "user agent too long", msg |-> m6] ELSE
    LET m7 == [m6 EXCEPT !.UserAgent = ua.str] IN
    IF Avail(b, ua.off) < 4 THEN [err |-> "io", msg |-> m7] ELSE
    [err |-> "nil",
     msg |-> [m7 EXCEPT !.LastBlock = Int32(SubSeq(b, ua.off + 1, ua.off + 4))]]

MsgVersionMaxPayloadLength_NoPrefix(pver) ==
    32 + (MaxNetAddressPayload(pver) * 2) + MaxUserAgentLen

MsgVersionMaxPayloadLength_NoUserAgent(pver) ==
    32 + (MaxNetAddressPayload(pver) * 2) + maxVarIntPayload

MsgVersionMaxPayloadLength(pver) ==
    32 + (MaxNetAddressPayload(pver) * 2) + maxVarIntPayload + MaxUserAgentLen

(***************************************************************************)
(* The Message interface: dispatch on the concrete type.  Besides          *)
(* MsgVersion the model has the types with an empty payload, and "custom": *)
(* any other implementation of the interface, given by what its methods   *)
(* return.                                                                 *)
(***************************************************************************)
Command(msg) ==
    CASE msg.kind = "version" -> cmdVersion
      [] msg.kind = "verack"  -> cmdVerAck
      [] msg.kind = "getaddr" -> cmdGetAddr
      [] msg.kind = "mempool" -> cmdMemPool
      [] msg.kind = "custom"  -> msg.command

BtcEncode(msg, pver) ==
    CASE msg.kind = "version" -> MsgVersionBtcEncode(msg, pver)
      [] msg.kind \in EmptyPayloadKinds -> [err |-> "nil", out |-> <<>>]
      [] msg.kind = "custom" ->
           IF msg.encodeErr THEN [err |-> "custom encode error", out |-> <<>>]
           ELSE [err |-> "nil", out |-> msg.payload]

BtcDecode(msg, b, pver) ==
    CASE msg.kind = "version" -> MsgVersionBtcDecode(msg, b, pver)
      [] msg.kind \in EmptyPayloadKinds -> [err |-> "nil", msg |-> msg]

MaxPayloadLength(msg, pver) ==
    CASE msg.kind = "version" -> MsgVersionMaxPayloadLength(pver)
      [] msg.kind \in EmptyPayloadKinds -> 0
      [] msg.kind = "custom" -> msg.maxPayload

(***************************************************************************)
(* makeEmptyMessage: the registry.  [err, msg]                             *)
(***************************************************************************)
makeEmptyMessage_Default(command) == [err |-> "nil", msg |-> EmptyMsgVersion]

makeEmptyMessage(command) ==
    CASE command = cmdVersion    -> [err |-> "nil", msg |-> EmptyMsgVersion]
      [] command = cmdVerAck     -> [err |-> "nil", msg |-> [kind |-> "verack"]]
      [] command = cmdGetAddr    -> [err |-> "nil", msg |-> [kind |-> "getaddr"]]
      [] command = cmdAddr       -> [err |-> "nil", msg |-> [kind |-> "addr"]]
      [] command = cmdGetBlocks  -> [err |-> "nil", msg |-> [kind |-> "getblocks"]]
      [] command = cmdBlock      -> [err |-> "nil", msg |-> [kind |-> "block"]]
      [] command = cmdInv        -> [err |-> "nil", msg |-> [kind |-> "inv"]]
      [] command = cmdGetData    -> [err |-> "nil", msg |-> [kind |-> "getdata"]]
      [] command = cmdNotFound   -> [err |-> "nil", msg |-> [kind |-> "notfound"]]
      [] command = cmdTx         -> [err |-> "nil", msg |-> [kind |-> "tx"]]
      [] command = cmdPing       -> [err |-> "nil", msg |-> [kind |-> "ping"]]
      [] command = cmdPong       -> [err |-> "nil", msg |-> [kind |-> "pong"]]
      [] command = cmdGetHeaders -> [err |-> "nil", msg |-> [kind |-> "getheaders"]]
      [] command = cmdHeaders    -> [err |-> "nil", msg |-> [kind |-> "headers"]]
      [] command = cmdAlert      -> [err |-> "nil", msg |-> [kind |-> "alert"]]
      [] command = cmdMemPool    -> [err |-> "nil", msg |-> [kind |-> "mempool"]]
      [] OTHER -> [err |-> "unhandled command", msg |-> NoMessage]

(***************************************************************************)
(* Byte streams.  A stream st = [buf, pad] holds the bytes buf followed by *)
(* pad zero bytes (pad lets a stream be longer than any byte string worth  *)
(* writing out); a reader rd = [pos, reads, allocs] has consumed pos       *)
(* bytes and logs its reads (what for, bytes asked for, bytes got) and     *)
(* the sizes of the buffers allocated for them.                            *)
(***************************************************************************)
StreamLen(st) == Len(st.buf) + st.pad

\* The n bytes of st after position pos (all of them present).
StreamBytes(st, pos, n) ==
    LET have == Min(n, Len(st.buf) - pos) IN
    IF have >= n THEN SubSeq(st.buf, pos + 1, pos + n)
    ELSE IF have <= 0 THEN <<>> \o Zeros(n)
    ELSE SubSeq(st.buf, pos + 1, pos + have) \o Zeros(n - have)

NewReader(pos) == [pos |-> pos, reads |-> <<>>, allocs |-> <<>>]

\* The number of bytes io.ReadFull gets when it asks for n at position pos.
Got(st, pos, n) == Min(n, StreamLen(st) - pos)

\* The error of io.ReadFull asking for n and getting got.
ReadFullErr(n, got) ==
    IF got = n THEN "nil" ELSE IF got = 0 THEN "EOF" ELSE "unexpected EOF"

\* io.ReadFull(r, buf) with len(buf) = n, logged under the name what.
ReadFull(st, rd, n, what) ==
    LET got == Got(st, rd.pos, n) IN
    [rd EXCEPT !.pos = rd.pos + got,
               !.reads = Append(rd.reads, [what |-> what, want |-> n, got |-> got,
                                          calls |-> 1])]

(***************************************************************************)
(* readMessageHeader                                                       *)
(***************************************************************************)
TrimRightZeros_All(b) == SelectSeq(b, LAMBDA x : x # 0)

RECURSIVE TrimRightZeros(_)
TrimRightZeros(b) ==
    IF b # <<>> /\ b[Len(b)] = 0 THEN TrimRightZeros(SubSeq(b, 1, Len(b) - 1)) ELSE b

\* The sizes of the elements of the header, in the order they are read.
headerElements == <<4, commandSize, 4, 4>>

ReadHeaderElements_All(st, rd, k) ==
    ReadFull(st, ReadFull(st, ReadFull(st, ReadFull(st, rd, 4, "header"),
                                       commandSize, "header"), 4, "header"),
             4, "header")

\* readElements over the header: element k is read only when the elements
\* before it were read in full.  Returns the reader after the reads.
RECURSIVE ReadHeaderElements(_, _, _)
ReadHeaderElements(st, rd, k) ==
    IF k > Len(headerElements) THEN rd
    ELSE LET n  == headerElements[k]
             r2 == ReadFull(st, rd, n, "header")
         IN  IF Got(st, rd.pos, n) < n THEN r2
             ELSE ReadHeaderElements(st, r2, k + 1)

\* [err, hdr, rd]
readMessageHeader(st, rd) ==
    LET r2   == ReadHeaderElements(st, rd, 1)
        last == r2.reads[Len(r2.reads)]
        err  == ReadFullErr(last.want, last.got)
    IN  IF err # "nil" THEN [err |-> err, rd |-> r2, hdr |-> [length |-> 0]]
        ELSE LET b == StreamBytes(st, rd.pos, headerSize) IN
             [err |-> "nil", rd |-> r2,
              hdr |-> [magic    |-> Net(SubSeq(b, 1, 4)),
                       command  |-> TrimRightZeros(SubSeq(b, 5, 4 + commandSize)),
                       length   |-> Uint32(SubSeq(b, 5 + commandSize, 8 + commandSize)),
                       checksum |-> SubSeq(b, 9 + commandSize, 12 + commandSize)]]

(***************************************************************************)
(* utf8.ValidString                                                        *)
(***************************************************************************)
IsCont(s, i) == i <= Len(s) /\ s[i] >= 128 /\ s[i] <= 191

InRange(s, i, lo, hi) == i <= Len(s) /\ s[i] >= lo /\ s[i] <= hi

RECURSIVE ValidUTF8From(_, _)
ValidUTF8From(s, i) ==
    IF i > Len(s) THEN TRUE
    ELSE LET c == s[i] IN
      CASE c < 128 -> ValidUTF8From(s, i + 1)
        [] c >= 194 /\ c <= 223 -> IsCont(s, i + 1) /\ ValidUTF8From(s, i + 2)
        [] c = 224 ->
             InRange(s, i + 1, 160, 191) /\ IsCont(s, i + 2) /\ ValidUTF8From(s, i + 3)
        [] (c >= 225 /\ c <= 236) \/ c = 238 \/ c = 239 ->
             IsCont(s, i + 1) /\ IsCont(s, i + 2) /\ ValidUTF8From(s, i + 3)
        [] c = 237 ->
             InRange(s, i + 1, 128, 159) /\ IsCont(s, i + 2) /\ ValidUTF8From(s, i + 3)
        [] c = 240 ->
             InRange(s, i + 1, 144, 191) /\ IsCont(s, i + 2) /\ IsCont(s, i + 3)
                 /\ ValidUTF8From(s, i + 4)
        [] c >= 241 /\ c <= 243 ->
             IsCont(s, i + 1) /\ IsCont(s, i + 2) /\ IsCont(s, i + 3)
                 /\ ValidUTF8From(s, i + 4)
        [] c = 244 ->
             InRange(s, i + 1, 128, 143) /\ IsCont(s, i + 2) /\ IsCont(s, i + 3)
                 /\ ValidUTF8From(s, i + 4)
        [] OTHER -> FALSE

ValidString(s) == ValidUTF8From(s, 1)

(***************************************************************************)
(* discardInput                                                            *)
(***************************************************************************)
\* The bytes that k successive io.ReadFull calls of size bytes each get
\* from position pos on, in a stream of len bytes: every call starts where
\* the previous one stopped (at the end of the stream it gets nothing),
\* and its error is not looked at.  The k calls are the first k \div 2 of
\* them and then the others.
RECURSIVE ReadsGot(_, _, _, _)
ReadsThen(len, pos, first, k, size) == first + ReadsGot(len, pos + first, k, size)

ReadsGot(len, pos, k, size) ==
    IF k = 0 THEN 0
    ELSE IF k = 1 THEN Min(size, len - pos)
    ELSE ReadsThen(len, pos, ReadsGot(len, pos, k \div 2, size), k - (k \div 2), size)

\* The bytes discardInput(r, n) consumes from position pos on: numReads
\* reads of maxSize bytes and, when bytesRemaining > 0, one more of
\* bytesRemaining bytes.
DiscardGot_NoRemainder(st, pos, n) ==
    ReadsGot(StreamLen(st), pos, n \div discardMaxSize, discardMaxSize)

DiscardGot_All(st, pos, n) == n

DiscardGot(st, pos, n) ==
    LET numReads       == n \div discardMaxSize
        bytesRemaining == n % discardMaxSize
        chunks         == ReadsGot(StreamLen(st), pos, numReads, discardMaxSize)
    IN  IF bytesRemaining > 0
        THEN ReadsThen(StreamLen(st), pos, chunks, 1, bytesRemaining)
        ELSE chunks

\* The number of io.ReadFull calls of discardInput(r, n).
DiscardCalls(n) ==
    (IF n > 0 THEN n \div discardMaxSize ELSE 0)
        + (IF n % discardMaxSize > 0 THEN 1 ELSE 0)

DiscardAllocs_Whole(n) == IF n > 0 THEN <<n>> ELSE <<>>

\* The buffers discardInput(r, n) makes.
DiscardAllocs(n) ==
    (IF n > 0 THEN <<discardMaxSize>> ELSE <<>>)
        \o (IF n % discardMaxSize > 0 THEN <<n % discardMaxSize>> ELSE <<>>)

discardInput_Nothing(st, rd, n) == rd

\* The reader after discardInput(r, n).  Its log gets one entry for the
\* whole call: the bytes asked for and got over all its reads, and the
\* number of reads.
discardInput(st, rd, n) ==
    LET got == DiscardGot(st, rd.pos, n) IN
    [pos    |-> rd.pos + got,
     reads  |-> Append(rd.reads, [what |-> "discard", want |-> n, got |-> got,
                                  calls |-> DiscardCalls(n)]),
     allocs |-> rd.allocs \o DiscardAllocs(n)]

(***************************************************************************)
(* WriteMessage.  [err, out]: out is what the sink w received, the header  *)
(* then the payload; the sink is an in-memory buffer, whose writes do not  *)
(* fail.                                                                   *)
(***************************************************************************)
\* var command [commandSize]byte; copy(command[:], []byte(cmd))
PadCommand_Right(cmd) == Zeros(commandSize - Len(cmd)) \o cmd

PadCommand(cmd) == cmd \o Zeros(commandSize - Len(cmd))

CommandTooLong_Off(cmd) == Len(cmd) >= commandSize

CommandTooLong(cmd) == Len(cmd) > commandSize

\* DoubleSha256(payload)[0:4]
Checksum(payload) == SubSeq(DoubleSha256(payload), 1, 4)

\* writeElements(w, hdr.magic, command, hdr.length, hdr.checksum)
HeaderBytes_LengthLast(magic, command, length, checksum) ==
    PutNet(magic) \o command \o checksum \o PutUint32(length)

HeaderBytes(magic, command, length, checksum) ==
    PutNet(magic) \o command \o PutUint32(length) \o checksum

\* [err, out, zeros]: the sink received out and then zeros zero bytes.
\* BtcEncode writes zeros zero bytes after the bytes it gives as out; a
\* return before the write leaves the sink as it was.
WriteMessage(msg, pver, btcnet) ==
    LET cmd == Command(msg)
        Refused(err) == [err |-> err, out |-> <<>>, zeros |-> 0]
    IN
    IF CommandTooLong(cmd) THEN Refused("command too long") ELSE
    LET enc == BtcEncode(msg, pver) IN
    IF enc.err # "nil" THEN Refused(enc.err) ELSE
    LET payload == enc.out
        zeros   == IF msg.kind = "custom" THEN msg.zeros ELSE 0
        lenp    == Len(payload) + zeros
        sum     == IF zeros = 0 THEN Checksum(payload)
                   ELSE SubSeq(DoubleSha256Tail(payload, zeros), 1, 4)
    IN
    IF lenp > maxMessagePayload THEN Refused("payload too large") ELSE
    LET mpl == MaxPayloadLength(msg, pver) IN
    IF lenp > mpl THEN Refused("payload too large for type") ELSE
    [err   |-> "nil",
     out   |-> HeaderBytes(btcnet, PadCommand(cmd), lenp, sum) \o payload,
     zeros |-> zeros]

(***************************************************************************)
(* ReadMessage.  The result holds what is returned (msg, payload, err),    *)
(* the reader afterwards (pos, reads, allocs) and steps, the calls made    *)
(* in order.                                                               *)
(***************************************************************************)
NilSlice == [nil |-> TRUE, bytes |-> <<>>]

Slice(b) == [nil |-> FALSE, bytes |-> b]

Result(msg, payload, err, rd, steps) ==
    [msg |-> msg, payload |-> payload, err |-> err, pos |-> rd.pos,
     reads |-> rd.reads, allocs |-> rd.allocs, steps |-> steps]

\* part_000:226
ExceedsGlobalMax_Off(length) == length >= maxMessagePayload

ExceedsGlobalMax_Never(length) == FALSE

ExceedsGlobalMax(length) == length > maxMessagePayload

\* part_000:235
WrongNetwork_Ignored(magic, btcnet) == FALSE

WrongNetwork(magic, btcnet) == magic # btcnet

\* part_000:260
ExceedsTypeMax_Ignored(length, mpl) == FALSE

ExceedsTypeMax(length, mpl) == length > mpl

\* part_000:276-277
ChecksumFailed_Ignored(payload, checksum) == FALSE

ChecksumFailed(payload, checksum) == Checksum(payload) # checksum

ReadMessage(st, pos, pver, btcnet) ==
    LET h  == readMessageHeader(st, NewReader(pos))
        s1 == <<"readMessageHeader">>
    IN
    IF h.err # "nil" THEN Result(NoMessage, NilSlice, h.err, h.rd, s1) ELSE
    LET hdr == h.hdr
        drained == discardInput(st, h.rd, hdr.length)
    IN
    IF ExceedsGlobalMax(hdr.length)
    THEN Result(NoMessage, NilSlice, "payload too large", h.rd, s1) ELSE
    IF WrongNetwork(hdr.magic, btcnet)
    THEN Result(NoMessage, NilSlice, "message from other network", drained,
                s1 \o <<"discardInput">>) ELSE
    IF ~ValidString(hdr.command)
    THEN Result(NoMessage, NilSlice, "invalid command", drained,
                s1 \o <<"discardInput">>) ELSE
    LET made == makeEmptyMessage(hdr.command)
        s2   == s1 \o <<"makeEmptyMessage">>
    IN
    IF made.err # "nil"
    THEN Result(NoMessage, NilSlice, made.err, drained, s2 \o <<"discardInput">>) ELSE
    LET mpl == MaxPayloadLength(made.msg, pver)
        s3  == s2 \o <<"MaxPayloadLength">>
    IN
    IF ExceedsTypeMax(hdr.length, mpl)
    THEN Result(NoMessage, NilSlice, "payload exceeds max length", drained,
                s3 \o <<"discardInput">>) ELSE
    LET r1  == [h.rd EXCEPT !.allocs = Append(h.rd.allocs, hdr.length)]
        got == Got(st, r1.pos, hdr.length)
        r2  == ReadFull(st, r1, hdr.length, "payload")
        s4  == s3 \o <<"readPayload">>
    IN
    IF got < hdr.length
    THEN Result(NoMessage, NilSlice, ReadFullErr(hdr.length, got), r2, s4) ELSE
    LET payload == StreamBytes(st, r1.pos, hdr.length)
        s5      == s4 \o <<"checksum">>
    IN
    IF ChecksumFailed(payload, hdr.checksum)
    THEN Result(NoMessage, NilSlice, "payload checksum failed", r2, s5) ELSE
    LET dec == BtcDecode(made.msg, payload, pver)
        s6  == s5 \o <<"BtcDecode">>
    IN
    IF dec.err # "nil" THEN Result(NoMessage, NilSlice, dec.err, r2, s6)
    ELSE Result(dec.msg, Slice(payload), "nil", r2, s6)

(***************************************************************************)
(* The inputs of the model.                                                *)
(***************************************************************************)
\* How many WriteMessage calls are made on a stream at most.
MaxFrames == 2

MainNet == <<55732, 48889>>     \* 0xd9b4bef9

TestNet3 == <<1801, 4363>>      \* 0x0709110b

Nets == {MainNet, TestNet3}

\* One protocol version on each side of NetAddressTimeVersion.
Pvers == {NetAddressTimeVersion - 1, 70001}

\* A user agent of n bytes; up to 12 bytes it is a prefix of "/test:0.0.1/".
UserAgent(n) ==
    LET t == <<47, 116, 101, 115, 116, 58, 48, 46, 48, 46, 49, 47>>
    IN  SubSeq([i \in 1..n |-> IF i <= 12 THEN t[i] ELSE 97 + (i % 26)], 1, n)

\* 192.168.0.1 and 127.0.0.1 as 16-byte addresses.
IPYou == <<0, 0, 0, 0, 0, 0, 0, 0, 0, 0, 255, 255, 192, 168, 0, 1>>

IPMe == <<0, 0, 0, 0, 0, 0, 0, 0, 0, 0, 255, 255, 127, 0, 0, 1>>

TimeA == [sec |-> <<0, 0, 18783, 43817>>, nsec |-> 0]

TimeB == [sec |-> <<0, 0, 18783, 43817>>, nsec |-> 999999999]

TimeC == [sec |-> <<65535, 65535, 65535, 65535>>, nsec |-> 1]

BaseVersion ==
    [kind |-> "version", ProtocolVersion |-> 70001, Services |-> U64(0),
     Timestamp |-> TimeA,
     AddrYou |-> [Services |-> U64(1), IP |-> IPYou, Port |-> 8333],
     AddrMe |-> [Services |-> U64(0), IP |-> IPMe, Port |-> 18333],
     Nonce |-> <<4660, 22136, 37035, 52719>>,
     UserAgent |-> UserAgent(12), LastBlock |-> 123456]

\* Lengths on both sides of the one-byte / three-byte length prefix and of
\* MaxUserAgentLen.
UserAgentLens == {0, 12, 252, 253, MaxUserAgentLen, MaxUserAgentLen + 1}

\* The version messages of the codec runs: every combination of these
\* field values.
CodecMsgs ==
    { [BaseVersion EXCEPT !.UserAgent = UserAgent(n), !.ProtocolVersion = v,
                          !.LastBlock = lb, !.Timestamp = t,
                          !.Services = IF v < 0 THEN <<32768, 0, 0, 1>> ELSE U64(0)] :
        n \in UserAgentLens \cup {MaxUserAgentLen - 1},
        v \in {70001, -1}, lb \in {123456, -2147483647},
        t \in {TimeA, TimeB, TimeC} }

\* The version messages of the framing runs.
VersionMsgs ==
    { [BaseVersion EXCEPT !.UserAgent = UserAgent(n)] : n \in UserAgentLens }
        \cup { [BaseVersion EXCEPT !.ProtocolVersion = -1, !.Timestamp = TimeB],
               [BaseVersion EXCEPT !.LastBlock = -2147483647, !.Timestamp = TimeC,
                                   !.Services = <<32768, 0, 0, 1>>] }

\* Other implementations of the Message interface.
Custom(command, payload, encodeErr, maxPayload) ==
    [kind |-> "custom", command |-> command, payload |-> payload,
     encodeErr |-> encodeErr, maxPayload |-> maxPayload, zeros |-> 0]

cmdBogus == <<98, 111, 103, 117, 115>>

cmdTwelve == <<97, 98, 99, 100, 101, 102, 103, 104, 105, 106, 107, 108>>

\* "a\x00b"
cmdInnerZero == <<97, 0, 98>>

\* Messages at the limits of WriteMessage: payloads of maxMessagePayload
\* bytes and one more, under a type's maximum that allows them or not, and
\* a command that is too long on a message that does not encode either.
\* A payload of zeros zero bytes is too long to be written out byte by
\* byte and is kept as a count.
LimitMsgs ==
    LET CustomZeros(command, zeros, maxPayload) ==
            [Custom(command, <<>>, FALSE, maxPayload) EXCEPT !.zeros = zeros]
        cmdThirteen == cmdTwelve \o <<109>>
    IN
    { CustomZeros(cmdBogus, maxMessagePayload, maxMessagePayload),
      CustomZeros(cmdBogus, maxMessagePayload, maxMessagePayload - 1),
      CustomZeros(cmdBogus, maxMessagePayload + 1, 2147483647),
      CustomZeros(cmdBogus, maxMessagePayload + 1, 0),
      Custom(cmdThirteen, <<>>, TRUE, 0),
      Custom(cmdTwelve, <<1, 2, 3>>, TRUE, 0) }

CustomMsgs ==
    { Custom(cmdBogus, <<1, 2, 3>>, FALSE, 3),
      Custom(cmdBogus, <<1, 2, 3>>, FALSE, 2),
      Custom(cmdBogus, <<1, 2, 3>>, TRUE, 3),
      Custom(cmdTwelve, <<>>, FALSE, 0),
      Custom(cmdInnerZero, <<>>, FALSE, 0),
      Custom(cmdTwelve \o <<109>>, <<>>, FALSE, 0) }

Messages == VersionMsgs \cup {[kind |-> "verack"]} \cup CustomMsgs

\* What a peer that does not run this code can put on the stream: a header
\* with any fields, followed by any bytes.
\* The version payload a peer builds that skips BtcEncode's check.
PeerVersionPayload(n) == MsgVersionWire([BaseVersion EXCEPT !.UserAgent = UserAgent(n)])

\* The longest user agent whose version payload passes the length check of
\* the version message.
LongestUserAgent(v) ==
    MsgVersionMaxPayloadLength(v) - Len(PeerVersionPayload(MaxUserAgentLen))
        + MaxUserAgentLen

PeerCommands ==
    { PadCommand(cmdVersion), PadCommand(cmdVerAck), PadCommand(cmdBogus),
      PadCommand(<<86, 69, 82, 83, 73, 79, 78>>),       \* "VERSION"
      PadCommand(<<255, 254>>),                          \* not UTF-8
      PadCommand(cmdVersion \o <<0, 120>>) }             \* "version\x00x"

\* Declared lengths other than the true one: one more, just over the
\* version message's maximum, two chunks, two chunks and a bit, and around
\* the global ceiling.
PeerLengths(v, payload) ==
    { Len(payload) + 1, MsgVersionMaxPayloadLength(v) + 1,
      2 * discardMaxSize, 2 * discardMaxSize + 5, maxMessagePayload, maxMessagePayload + 1,
      2147483647 }

BadChecksum(payload) == [Checksum(payload) EXCEPT ![1] = (@ + 1) % 256]

PeerFrame(magic, cmd, length, checksum, payload) ==
    [magic |-> magic, cmd |-> cmd, length |-> length, checksum |-> checksum,
     payload |-> payload]

\* Headers over an empty payload and over an ordinary version payload:
\* every network and command, with the true length and a right or a wrong
\* checksum, or with another length.
PeerHeaderFrames(v) ==
    UNION { { PeerFrame(magic, cmd, Len(payload), checksum, payload) :
                magic \in Nets, cmd \in PeerCommands,
                checksum \in {Checksum(payload), BadChecksum(payload)} }
            \cup
            { PeerFrame(magic, cmd, length, Checksum(payload), payload) :
                magic \in Nets, cmd \in PeerCommands,
                length \in PeerLengths(v, payload) } :
            payload \in {<<>>, PeerVersionPayload(12)} }

\* Version frames whose user agent is longer than MaxUserAgentLen: one
\* byte longer, the longest that passes the length check, and one more.
PeerLongFrames(v) ==
    UNION { { PeerFrame(magic, PadCommand(cmdVersion), Len(payload), checksum, payload) :
                magic \in Nets,
                checksum \in {Checksum(payload), BadChecksum(payload)} } :
            payload \in { PeerVersionPayload(n) :
                            n \in {MaxUserAgentLen + 1, LongestUserAgent(v),
                                   LongestUserAgent(v) + 1} } }

PeerFrames(v) == PeerHeaderFrames(v) \cup PeerLongFrames(v)

(***************************************************************************)
(* State.                                                                  *)
(*   pver      the protocol version both ends use                          *)
(*   st        the in-memory stream: what has been written to it           *)
(*   pos       how many bytes of st the reader has consumed                *)
(*   frames    the WriteMessage calls made on the stream and what they     *)
(*             returned, and the frames a peer forged, in order (history)  *)
(*   lastRead  the last ReadMessage call and what it returned              *)
(*   codec     the last direct BtcEncode / BtcDecode call on a MsgVersion  *)
(***************************************************************************)
VARIABLES pver, st, pos, frames, lastRead, codec

vars == <<pver, st, pos, frames, lastRead, codec>>

\* The network the reader expects.
btcnet == MainNet

\* How many ReadMessage calls are made on a stream at most.
MaxReads == 3

None == [valid |-> FALSE, n |-> 0]

Init ==
    /\ pver \in Pvers
    /\ st = [buf |-> <<>>, pad |-> 0]
    /\ pos = 0
    /\ frames = <<>>
    /\ lastRead = None
    /\ codec = None

\* Nothing has been read yet and the stream takes another frame.
CanSend ==
    /\ ~lastRead.valid
    /\ st.pad = 0
    /\ Len(frames) < MaxFrames
    /\ \A i \in 1..Len(frames) : ~frames[i].flipped

\* An entry of the history: who put it on the stream, the message and the
\* error of a WriteMessage call, where the bytes start, how many they are,
\* and the header fields as sent.
Frame(origin, msg, err, start, size, magic, cmd, length, checksum) ==
    [origin |-> origin, msg |-> msg, err |-> err, start |-> start, size |-> size,
     magic |-> magic, cmd |-> cmd, length |-> length, checksum |-> checksum,
     flipped |-> FALSE]

\* WriteMessage(w, m, pver, net) on the stream.
Write(m, net) ==
    /\ CanSend
    /\ LET w == WriteMessage(m, pver, net) IN
       /\ st' = [buf |-> st.buf \o w.out, pad |-> w.zeros]
       /\ frames' = Append(frames,
                       Frame("WriteMessage", m, w.err, Len(st.buf),
                             Len(w.out) + w.zeros, net, <<>>, 0, <<>>))
    /\ UNCHANGED <<pver, pos, lastRead, codec>>

\* A peer puts a header with the given fields and then payload on the
\* stream, before anything else is on it.
Forge(magic, cmd, length, checksum, payload) ==
    /\ CanSend
    /\ frames = <<>>
    /\ st' = [st EXCEPT !.buf = HeaderBytes(magic, cmd, length, checksum) \o payload]
    /\ frames' = <<Frame("peer", NoMessage, "nil", 0, headerSize + Len(payload),
                         magic, cmd, length, checksum)>>
    /\ UNCHANGED <<pver, pos, lastRead, codec>>

\* The stream goes on after the first frame with n more (zero) bytes.
Pad(n) ==
    /\ ~lastRead.valid
    /\ st.pad = 0
    /\ Len(frames) = 1
    /\ st' = [st EXCEPT !.pad = n]
    /\ UNCHANGED <<pver, pos, frames, lastRead, codec>>

\* Where a stream may end inside a header: inside the magic, after it,
\* after the command, and one byte before the header's end.
CutAt == {3, 4, 4 + commandSize, headerSize - 1}

\* The stream ends n bytes into the header of the only frame, a whole one,
\* that is on it.
Cut(n) ==
    /\ ~lastRead.valid
    /\ st.pad = 0
    /\ Len(frames) = 1
    /\ frames[1].origin = "peer"
    /\ frames[1].length = frames[1].size - headerSize
    /\ st' = [st EXCEPT !.buf = SubSeq(@, 1, n)]
    /\ frames' = <<[frames[1] EXCEPT !.size = n]>>
    /\ UNCHANGED <<pver, pos, lastRead, codec>>

\* One payload byte of the only frame on the stream changes in transit;
\* the frame is one that this reader's network sent, and the byte is among
\* the first or the last MaxFlip bytes of the payload.
MaxFlip == 100

FlipDeltas == {1, 255}

CanFlip ==
    /\ ~lastRead.valid
    /\ Len(frames) = 1
    /\ frames[1].origin = "WriteMessage"
    /\ frames[1].magic = btcnet
    /\ ~frames[1].flipped

Flip(i, d) ==
    /\ CanFlip
    /\ i > headerSize
    /\ i <= frames[1].size
    /\ i <= headerSize + MaxFlip \/ i > frames[1].size - MaxFlip
    /\ st' = [st EXCEPT !.buf[i] = (@ + d) % 256]
    /\ frames' = [frames EXCEPT ![1].flipped = TRUE]
    /\ UNCHANGED <<pver, pos, lastRead, codec>>

\* ReadMessage(r, pver, btcnet) on the stream; the first call may find the
\* stream empty, later calls are made while bytes are left.
Read ==
    /\ lastRead.n < MaxReads
    /\ ~lastRead.valid \/ pos < StreamLen(st)
    /\ LET r == ReadMessage(st, pos, pver, btcnet) IN
       /\ lastRead' = [valid |-> TRUE, n |-> lastRead.n + 1, start |-> pos, res |-> r]
       /\ pos' = r.pos
    /\ UNCHANGED <<pver, st, frames, codec>>

\* msg.BtcEncode(w, pver) on a MsgVersion, w an empty buffer.
Encode(m) ==
    /\ ~codec.valid
    /\ frames = <<>>
    /\ LET e == MsgVersionBtcEncode(m, pver) IN
       codec' = [valid |-> TRUE, op |-> "BtcEncode", msg |-> m, err |-> e.err,
                 bytes |-> e.out, got |-> NoMessage]
    /\ UNCHANGED <<pver, st, pos, frames, lastRead>>

\* BtcDecode(r, pver) on a fresh MsgVersion, r holding what BtcEncode wrote.
Decode ==
    /\ codec.valid
    /\ codec.op = "BtcEncode"
    /\ codec.err = "nil"
    /\ frames = <<>>
    /\ LET d == MsgVersionBtcDecode(EmptyMsgVersion, codec.bytes, pver) IN
       codec' = [codec EXCEPT !.op = "BtcDecode", !.err = d.err, !.got = d.msg]
    /\ UNCHANGED <<pver, st, pos, frames, lastRead>>

\* WriteMessage of the message BtcEncode was called on.
WriteEncoded ==
    /\ codec.valid
    /\ codec.op = "BtcEncode"
    /\ frames = <<>>
    /\ \E net \in Nets : Write(codec.msg, net)

\* WriteMessage of a message of another implementation of Message, on an
\* empty stream.
WriteCustom ==
    /\ ~codec.valid
    /\ frames = <<>>
    /\ \E m \in CustomMsgs \cup LimitMsgs : Write(m, btcnet)

(***************************************************************************)
(* Specifications.                                                         *)
(*   Spec      WriteMessage calls on the stream, a byte changed in         *)
(*             transit, ReadMessage calls                                  *)
(*   SpecPeer  a frame forged by the peer, alone, cut short, followed by   *)
(*             more bytes or by a WriteMessage call; ReadMessage calls     *)
(*   SpecCodec BtcEncode / BtcDecode of version messages, WriteMessage of  *)
(*             what was encoded and of messages at its limits              *)
(***************************************************************************)
Next ==
    \/ CanSend /\ \E m \in Messages : Write(m, btcnet)
    \/ Write(BaseVersion, TestNet3)
    \/ CanFlip /\ \E i \in (headerSize + 1)..frames[1].size, d \in FlipDeltas :
                     Flip(i, d)
    \/ Read

Spec == Init /\ [][Next]_vars

NextPeer ==
    \/ /\ CanSend
       /\ frames = <<>>
       /\ \E f \in PeerFrames(pver) :
            Forge(f.magic, f.cmd, f.length, f.checksum, f.payload)
    \/ frames # <<>> /\ Write(BaseVersion, btcnet)
    \/ Pad(maxMessagePayload)
    \/ \E n \in CutAt : Cut(n)
    \/ Read

SpecPeer == Init /\ [][NextPeer]_vars

NextCodec ==
    \/ \E m \in CodecMsgs : Encode(m)
    \/ Decode
    \/ WriteEncoded
    \/ WriteCustom

SpecCodec == Init /\ [][NextCodec]_vars

(***************************************************************************)
(* Observations of the last calls.                                         *)
(***************************************************************************)
\* Every command makeEmptyMessage is meant to know.
RegisteredCommands ==
    { cmdVersion, cmdVerAck, cmdGetAddr, cmdAddr, cmdGetBlocks, cmdInv, cmdGetData,
      cmdNotFound, cmdBlock, cmdTx, cmdGetHeaders, cmdHeaders, cmdPing, cmdPong,
      cmdAlert, cmdMemPool }

\* The last ReadMessage call found a whole header on the stream.
ReadHeader == lastRead.valid /\ StreamLen(st) - lastRead.start >= headerSize

\* The fields of the header the last ReadMessage call started at, as they
\* are on the stream.
HdrBytes == StreamBytes(st, lastRead.start, headerSize)

HdrMagic == Net(SubSeq(HdrBytes, 1, 4))

HdrCommand == TrimRightZeros(SubSeq(HdrBytes, 5, 16))

HdrLength == Uint32(SubSeq(HdrBytes, 17, 20))

HdrChecksum == SubSeq(HdrBytes, 21, 24)

\* The bytes on the stream after that header.
AfterHeader == StreamLen(st) - (lastRead.start + headerSize)

Res == lastRead.res

Steps == {Res.steps[i] : i \in 1..Len(Res.steps)}

\* The last ReadMessage call drained n bytes: it called discardInput, for
\* n bytes.
Drained(n) ==
    /\ "discardInput" \in Steps
    /\ \E i \in 1..Len(Res.reads) : Res.reads[i].what = "discard" /\ Res.reads[i].want = n

\* It returned an error, and neither a message nor payload bytes.
Failed == Res.err # "nil" /\ Res.msg = NoMessage /\ Res.payload.nil

\* The entries of the history that the last ReadMessage call started at.
ReadFrames ==
    { i \in 1..Len(frames) : frames[i].size > 0 /\ frames[i].start = lastRead.start }

\* The bytes of frame i on the stream.
FrameBytes(i) == SubSeq(st.buf, frames[i].start + 1, frames[i].start + frames[i].size)

\* Message a with its timestamp at whole-second precision.
WholeSeconds(a) ==
    IF a.kind = "version" THEN [a EXCEPT !.Timestamp.nsec = 0] ELSE a

\* Frame i was read back as the claim of the round trip says: the message,
\* the raw payload, and exactly the bytes of the frame consumed.
ReadBack(i) ==
    /\ Res.err = "nil"
    /\ Res.msg = WholeSeconds(frames[i].msg)
    /\ ~Res.payload.nil
    /\ Res.payload.bytes = SubSeq(FrameBytes(i), headerSize + 1, frames[i].size)
    /\ Res.pos = frames[i].start + frames[i].size

\* A frame WriteMessage wrote for the reader's network that nothing changed.
Untouched(i) ==
    /\ frames[i].origin = "WriteMessage"
    /\ frames[i].err = "nil"
    /\ frames[i].magic = btcnet
    /\ ~frames[i].flipped

RefusedUnknown(i) ==
    /\ Res.err = "unhandled command"
    /\ Failed
    /\ Res.pos = frames[i].start + frames[i].size

Written(i) ==
    /\ frames[i].origin = "WriteMessage"
    /\ frames[i].err = "nil"
    /\ ~frames[i].flipped

\* The bytes of frame i are laid out as: the network's magic, the command
\* padded with zero bytes to twelve, the payload's length, the first four
\* bytes of the payload's double hash, and then the payload BtcEncode gives.
FrameLayout(i) ==
    LET out     == FrameBytes(i)
        m       == frames[i].msg
        payload == SubSeq(out, headerSize + 1, Len(out))
        name    == Command(m)
    IN /\ Len(out) >= headerSize
       /\ SubSeq(out, 1, 4) = PutNet(frames[i].magic)
       /\ SubSeq(out, 5, 4 + Len(name)) = name
       /\ \A k \in (4 + Len(name) + 1)..(4 + commandSize) : out[k] = 0
       /\ SubSeq(out, 17, 20) = PutUint32(Len(payload))
       /\ SubSeq(out, 21, 24) = SubSeq(DoubleSha256(payload), 1, 4)
       /\ payload = BtcEncode(m, pver).out

\* C10: what WriteMessage writes on success is a 24-byte header (network
\* magic, zero-padded command, payload length, checksum of the payload)
\* and then the encoded payload.
C10_FrameLayout ==
    \A i \in 1..Len(frames) : Written(i) => FrameLayout(i)

\* A version message was written for the other network after a message
\* whose command fills all twelve bytes.
C10_Witness ==
    /\ Len(frames) = 2
    /\ Written(1) /\ Len(Command(frames[1].msg)) = commandSize
    /\ Written(2) /\ frames[2].msg.kind = "version" /\ frames[2].magic # btcnet

\* The last operation was BtcEncode of a version message.
Encoded == codec.valid /\ codec.op = "BtcEncode"

\* The last operation was BtcDecode of what BtcEncode wrote.
Decoded == codec.valid /\ codec.op = "BtcDecode"

\* C7: BtcEncode fails with the user-agent-too-long error, having written
\* no byte, when the user agent is longer than MaxUserAgentLen, and not at
\* MaxUserAgentLen or below; WriteMessage of such a message returns that
\* error.
C7_EncodeUserAgentLimit ==
    /\ Encoded =>
          IF Len(codec.msg.UserAgent) > MaxUserAgentLen
          THEN codec.err = "user agent too long" /\ codec.bytes = <<>>
          ELSE codec.err = "nil" /\ codec.bytes # <<>>
    /\ \A i \in 1..Len(frames) :
          /\ frames[i].origin = "WriteMessage"
          /\ frames[i].msg.kind = "version"
          /\ Len(frames[i].msg.UserAgent) > MaxUserAgentLen
          => frames[i].err = "user agent too long"

\* BtcEncode and then WriteMessage were called on a version message whose
\* user agent is one byte over the limit.
C7_Witness ==
    /\ Encoded
    /\ Len(codec.msg.UserAgent) = MaxUserAgentLen + 1
    /\ codec.err = "user agent too long"
    /\ Len(frames) = 1
    /\ frames[1].msg = codec.msg
    /\ frames[1].err = "user agent too long"

\* The encoding has the fields in the order ProtocolVersion, Services,
\* Timestamp, AddrYou, AddrMe, Nonce, UserAgent, LastBlock.
FieldOrder(m, b) ==
    LET n == Len(b)
        u == Len(m.UserAgent)
    IN /\ SubSeq(b, 1, 4) = PutInt32(m.ProtocolVersion)
       /\ SubSeq(b, 5, 12) = PutUint64(m.Services)
       /\ SubSeq(b, 13, 20) = PutUint64(TimeToUnix(m.Timestamp))
       /\ SubSeq(b, 29, 44) = m.AddrYou.IP
       /\ SubSeq(b, 55, 70) = m.AddrMe.IP
       /\ SubSeq(b, 73, 80) = PutUint64(m.Nonce)
       /\ SubSeq(b, n - 3 - u, n - 4) = m.UserAgent
       /\ SubSeq(b, n - 3, n) = PutInt32(m.LastBlock)

PayloadUntouched ==
    /\ \A i \in 1..Len(Res.reads) : Res.reads[i].what # "payload"
    /\ Steps \cap {"readPayload", "checksum", "BtcDecode"} = {}

\* C3: a header that declares more than maxMessagePayload is rejected with
\* exactly the header's 24 bytes consumed: nothing is drained and no
\* payload is read.  A declared length of exactly maxMessagePayload is not
\* rejected by this check.
C3_GlobalCeiling ==
    /\ (ReadHeader /\ HdrLength > maxMessagePayload) =>
          /\ Failed
          /\ Res.pos = lastRead.start + headerSize
          /\ Res.steps = <<"readMessageHeader">>
          /\ \A i \in 1..Len(Res.reads) : Res.reads[i].what = "header"
          /\ Res.allocs = <<>>
    /\ (ReadHeader /\ HdrLength = maxMessagePayload) =>
          /\ Res.err # "payload too large"
          /\ Len(Res.steps) > 1

\* A header of the reader's network declaring one byte over the ceiling
\* was rejected with bytes left on the stream after it.
C3_Witness ==
    /\ ReadHeader
    /\ HdrMagic = btcnet
    /\ HdrLength = maxMessagePayload + 1
    /\ AfterHeader > 0
    /\ Res.err = "payload too large"
    /\ Res.pos = lastRead.start + headerSize

\* C4: a version header of the reader's network that declares more than
\* MsgVersion's MaxPayloadLength and no more than maxMessagePayload is
\* rejected after draining the declared length: the payload is not read
\* into a buffer, no checksum is computed, the decoder is not called.
C4_TypeCeiling ==
    ( /\ ReadHeader
      /\ HdrMagic = btcnet
      /\ HdrCommand = cmdVersion
      /\ HdrLength > MsgVersionMaxPayloadLength(pver)
      /\ HdrLength <= maxMessagePayload )
    => /\ Failed
       /\ Drained(HdrLength)
       /\ PayloadUntouched
       /\ Res.allocs = DiscardAllocs(HdrLength)

\* A version header declaring one byte over the version message's maximum
\* was rejected, all declared bytes being on the stream.
C4_Witness ==
    /\ ReadHeader
    /\ HdrMagic = btcnet
    /\ HdrCommand = cmdVersion
    /\ HdrLength = MsgVersionMaxPayloadLength(pver) + 1
    /\ AfterHeader >= HdrLength
    /\ Res.err = "payload exceeds max length"
    /\ Res.pos = lastRead.start + headerSize + HdrLength

\* C5: a header of another network declaring no more than
\* maxMessagePayload makes ReadMessage return an error, and when the
\* declared bytes follow on the stream it has consumed exactly the header
\* and the declared length.
C5_WrongNetworkDrain ==
    ( /\ ReadHeader
      /\ HdrMagic # btcnet
      /\ HdrLength <= maxMessagePayload )
    => /\ Failed
       /\ (AfterHeader >= HdrLength =>
              Res.pos = lastRead.start + headerSize + HdrLength)

\* A frame of the other network with a payload was followed by a frame of
\* the reader's network, and the read stopped where that one starts.
C5_Witness ==
    /\ ReadHeader
    /\ HdrMagic # btcnet
    /\ HdrLength > 0
    /\ Len(frames) = 2
    /\ lastRead.start = frames[1].start
    /\ Res.err = "message from other network"
    /\ Res.pos = frames[2].start

\* C6 as claimed: a header of the reader's network, within the ceiling,
\* whose command (trailing zero bytes trimmed) is no registered command
\* makes ReadMessage return the unknown-command error, after draining the
\* declared length, and no message.
C6_AnyUnregisteredUnknown ==
    ( /\ ReadHeader
      /\ HdrMagic = btcnet
      /\ HdrLength <= maxMessagePayload
      /\ HdrCommand \notin RegisteredCommands )
    => /\ Res.err = "unhandled command"
       /\ Failed
       /\ Drained(HdrLength)

\* C6 amended: so it is when the command is valid UTF-8; a command that is
\* not valid UTF-8 gets the invalid-command error, also after the drain.
C6_UnknownCommand ==
    ( /\ ReadHeader
      /\ HdrMagic = btcnet
      /\ HdrLength <= maxMessagePayload
      /\ HdrCommand \notin RegisteredCommands )
    => /\ Res.err = IF ValidString(HdrCommand) THEN "unhandled command"
                                               ELSE "invalid command"
       /\ Failed
       /\ Drained(HdrLength)
       /\ PayloadUntouched
       /\ (AfterHeader >= HdrLength =>
              Res.pos = lastRead.start + headerSize + HdrLength)

\* The command "VERSION" in capitals, over a payload, was refused as
\* unknown and the payload drained.
C6_Witness ==
    /\ ReadHeader
    /\ HdrMagic = btcnet
    /\ HdrCommand = <<86, 69, 82, 83, 73, 79, 78>>
    /\ HdrLength > 0
    /\ AfterHeader >= HdrLength
    /\ Res.err = "unhandled command"
    /\ Res.pos = lastRead.start + headerSize + HdrLength

\* The payload after the header is a version payload whose user agent has
\* n bytes: n is in the three-byte length prefix that follows the 80 bytes
\* of fixed fields, and the payload is as long as that makes it.
PayloadUserAgentLen(payload, n) ==
    /\ Len(payload) = 80 + 3 + n + 4
    /\ payload[81] = 253
    /\ Uint16LE(SubSeq(payload, 82, 83)) = n

\* A well-formed version frame of the reader's network: all declared bytes
\* are on the stream, the checksum is that of the payload, and the length
\* is within the version message's maximum.
GoodVersionFrame(payload) ==
    /\ HdrMagic = btcnet
    /\ HdrCommand = cmdVersion
    /\ HdrLength = Len(payload)
    /\ HdrLength <= MsgVersionMaxPayloadLength(pver)
    /\ HdrChecksum = SubSeq(DoubleSha256(payload), 1, 4)

\* C8: ReadMessage of a well-formed version frame (right network, right
\* checksum, length within the version message's maximum) whose user agent
\* is longer than MaxUserAgentLen returns the decoder's
\* user-agent-too-long error; such frames exist.
C8_DecodeUserAgentLimit ==
    ( /\ ReadHeader
      /\ AfterHeader >= HdrLength
      /\ HdrLength > 87 + MaxUserAgentLen
      /\ HdrLength <= MsgVersionMaxPayloadLength(pver)
      /\ LET payload == StreamBytes(st, lastRead.start + headerSize, HdrLength) IN
         /\ GoodVersionFrame(payload)
         /\ PayloadUserAgentLen(payload, Len(payload) - 87) )
    => /\ Res.err = "user agent too long"
       /\ Failed
       /\ "BtcDecode" \in Steps

\* The longest user agent that passes the length check was refused by the
\* decoder.
C8_Witness ==
    /\ ReadHeader
    /\ AfterHeader >= HdrLength
    /\ HdrLength = MsgVersionMaxPayloadLength(pver)
    /\ LET payload == StreamBytes(st, lastRead.start + headerSize, HdrLength) IN
       /\ GoodVersionFrame(payload)
       /\ PayloadUserAgentLen(payload, HdrLength - 87)
    /\ HdrLength - 87 > MaxUserAgentLen + 1
    /\ Res.err = "user agent too long"

\* The command of message m has no trailing zero byte.
NoTrailingZero(m) ==
    LET name == Command(m) IN name = <<>> \/ name[Len(name)] # 0

\* The command readMessageHeader returns for frame i.
HeaderCommandOf(i) == readMessageHeader(st, NewReader(frames[i].start)).hdr.command

\* C11: a command of at most twelve bytes with no trailing zero byte is
\* on the wire as exactly twelve bytes, the command and then zero bytes, and
\* readMessageHeader gives the command back, zero bytes inside it kept.
C11_CommandRoundTrip ==
    \A i \in 1..Len(frames) :
        Written(i) /\ NoTrailingZero(frames[i].msg) =>
            LET name == Command(frames[i].msg) IN
            /\ SubSeq(FrameBytes(i), 5, 4 + commandSize)
                   = name \o [k \in 1..(commandSize - Len(name)) |-> 0]
            /\ Len(FrameBytes(i)) - Len(BtcEncode(frames[i].msg, pver).out)
                   = 4 + commandSize + 8
            /\ HeaderCommandOf(i) = name

\* A command with a zero byte inside was written, after one of twelve
\* bytes, and ReadMessage was called on the stream.
C11_Witness ==
    /\ Len(frames) = 2
    /\ Written(1) /\ Len(Command(frames[1].msg)) = commandSize
    /\ Written(2) /\ Command(frames[2].msg) = cmdInnerZero
    /\ HeaderCommandOf(2) = cmdInnerZero
    /\ lastRead.valid

\* The discardInput calls of the last ReadMessage call.
DiscardReads == {i \in 1..Len(Res.reads) : Res.reads[i].what = "discard"}

\* C12: every discardInput call of ReadMessage is for at most
\* maxMessagePayload bytes: a header that declares more is refused before
\* the network, the command and the type's maximum are looked at, so no
\* drain of more is started.
C12_DrainBounded ==
    lastRead.valid =>
        /\ \A i \in DiscardReads :
              /\ Res.reads[i].want <= maxMessagePayload
              /\ ReadHeader /\ Res.reads[i].want = HdrLength
        /\ "discardInput" \in Steps => HdrLength <= maxMessagePayload
        /\ (ReadHeader /\ HdrLength > maxMessagePayload) =>
              DiscardReads = {} /\ "discardInput" \notin Steps

\* A drain of exactly maxMessagePayload bytes was made for a header of
\* another network.
C12_Witness ==
    /\ ReadHeader
    /\ HdrMagic # btcnet
    /\ HdrLength = maxMessagePayload
    /\ \E i \in DiscardReads : Res.reads[i].want = maxMessagePayload
    /\ AfterHeader >= maxMessagePayload

\* What can be checked from the header alone, in the order ReadMessage
\* checks it; the last only makes sense when the ones before it hold.
LengthWithinGlobal == HdrLength <= maxMessagePayload

NetworkExpected == HdrMagic = btcnet

CommandRegistered == HdrCommand \in RegisteredCommands

LengthWithinType ==
    HdrLength <= MaxPayloadLength(makeEmptyMessage(HdrCommand).msg, pver)

HeaderChecksPass ==
    /\ LengthWithinGlobal
    /\ NetworkExpected
    /\ ValidString(HdrCommand)
    /\ CommandRegistered
    /\ LengthWithinType

\* The steps ReadMessage takes up to and including the first header check
\* that fails, and up to the payload read when none fails.
StepsExpected ==
    CASE ~LengthWithinGlobal -> <<"readMessageHeader">>
      [] LengthWithinGlobal /\ ~NetworkExpected -> <<"readMessageHeader", "discardInput">>
      [] LengthWithinGlobal /\ NetworkExpected /\ ~ValidString(HdrCommand) ->
             <<"readMessageHeader", "discardInput">>
      [] LengthWithinGlobal /\ NetworkExpected /\ ValidString(HdrCommand)
            /\ ~CommandRegistered ->
             <<"readMessageHeader", "makeEmptyMessage", "discardInput">>
      [] OTHER ->
             IF ~LengthWithinType
             THEN <<"readMessageHeader", "makeEmptyMessage", "MaxPayloadLength",
                    "discardInput">>
             ELSE <<"readMessageHeader", "makeEmptyMessage", "MaxPayloadLength",
                    "readPayload">>

\* A payload buffer was made or a payload read was made.
PayloadAsked ==
    \/ "readPayload" \in Steps
    \/ \E i \in 1..Len(Res.reads) : Res.reads[i].what = "payload"
    \/ Res.allocs # <<>> /\ DiscardReads = {}

\* C13: ReadMessage makes the payload buffer and reads the payload only
\* when every check on the header has passed (length within the ceiling,
\* expected network, command valid text, command registered, length within
\* the type's maximum), and after the first check that fails it checks
\* nothing more, reads no payload, computes no checksum and decodes nothing.
C13_ChecksBeforePayload ==
    /\ ReadHeader =>
          /\ PayloadAsked => HeaderChecksPass
          /\ ~HeaderChecksPass => Res.steps = StepsExpected /\ Failed /\ PayloadUntouched
          /\ HeaderChecksPass =>
                /\ Len(Res.steps) >= 4
                /\ SubSeq(Res.steps, 1, 4) = StepsExpected
                /\ Res.allocs = <<HdrLength>>
    /\ (lastRead.valid /\ ~ReadHeader) => Res.steps = <<"readMessageHeader">>

\* A version header passed every check and a payload buffer of the
\* declared length was made and read into.
C13_Witness ==
    /\ ReadHeader
    /\ HeaderChecksPass
    /\ HdrCommand = cmdVersion
    /\ HdrLength > 0
    /\ Res.allocs = <<HdrLength>>
    /\ "readPayload" \in Steps

\* The sum of the sizes of the buffers made.
RECURSIVE AllocTotal(_)
AllocTotal(a) == IF a = <<>> THEN 0 ELSE a[1] + AllocTotal(SubSeq(a, 2, Len(a)))

\* discardInput(r, n) on a stream holding n bytes or more took exactly n
\* bytes, and it made as many reads as n needs chunks.
DiscardedExactly(i) ==
    LET n == Res.reads[i].want IN
    /\ AfterHeader >= n => Res.reads[i].got = n /\ Res.pos = lastRead.start + headerSize + n
    /\ Res.reads[i].calls = (n + discardMaxSize - 1) \div discardMaxSize

RejectionExpected ==
    CASE ~LengthWithinGlobal -> "payload too large"
      [] LengthWithinGlobal /\ ~NetworkExpected -> "message from other network"
      [] LengthWithinGlobal /\ NetworkExpected /\ ~ValidString(HdrCommand) ->
             "invalid command"
      [] LengthWithinGlobal /\ NetworkExpected /\ ValidString(HdrCommand)
            /\ ~CommandRegistered -> "unhandled command"
      [] OTHER -> "payload exceeds max length"

\* The header is rejected after a drain, and the stream ends before the
\* declared bytes do.
DrainCutShort ==
    /\ ReadHeader
    /\ LengthWithinGlobal
    /\ ~HeaderChecksPass
    /\ AfterHeader < HdrLength

\* C15: when the stream ends while ReadMessage drains a rejected payload,
\* ReadMessage returns the error of the rejection, not an I/O error; the
\* drain has taken what the stream held.
C15_DrainErrorsIgnored ==
    DrainCutShort =>
        /\ Res.err = RejectionExpected
        /\ Res.err \notin {"EOF", "unexpected EOF"}
        /\ Failed
        /\ Drained(HdrLength)
        /\ \A i \in DiscardReads : Res.reads[i].got = AfterHeader
        /\ Res.pos = StreamLen(st)

\* A version header declared more than the type's maximum, the stream
\* ended inside the declared bytes, and the error is that of the length.
C15_Witness ==
    /\ DrainCutShort
    /\ HdrCommand = cmdVersion
    /\ NetworkExpected
    /\ AfterHeader > 0
    /\ Res.err = "payload exceeds max length"
    /\ Res.pos = StreamLen(st)

\* The I/O error of a read that got fewer bytes than it asked for.
ShortReadError(got) == IF got = 0 THEN "EOF" ELSE "unexpected EOF"

\* The header passes every check and the stream ends before the declared
\* payload does.
PayloadCutShort == ReadHeader /\ HeaderChecksPass /\ AfterHeader < HdrLength

\* The stream ends before the header does.
HeaderCutShort == lastRead.valid /\ ~ReadHeader

\* C16: a short read of the payload gives the I/O error of the read, no
\* message and no payload, with no drain, no checksum and no decoding; a
\* short read of the header gives the I/O error with no read after it.
C16_ShortRead ==
    /\ PayloadCutShort =>
          /\ Res.err = ShortReadError(AfterHeader)
          /\ Failed
          /\ DiscardReads = {}
          /\ Steps \cap {"discardInput", "checksum", "BtcDecode"} = {}
          /\ Res.reads[Len(Res.reads)] =
                [what |-> "payload", want |-> HdrLength, got |-> AfterHeader, calls |-> 1]
          /\ Res.pos = StreamLen(st)
    /\ HeaderCutShort =>
          LET k == Len(Res.reads) IN
          /\ k >= 1
          /\ \A j \in 1..k : Res.reads[j].what = "header"
          /\ \A j \in 1..(k - 1) : Res.reads[j].got = Res.reads[j].want
          /\ Res.reads[k].got < Res.reads[k].want
          /\ Res.err = ShortReadError(Res.reads[k].got)
          /\ Failed
          /\ Res.steps = <<"readMessageHeader">>
          /\ Res.allocs = <<>>
          /\ Res.pos = StreamLen(st)

\* A version header passed the checks and the stream ended inside the
\* payload.
C16_Witness ==
    /\ PayloadCutShort
    /\ HdrCommand = cmdVersion
    /\ AfterHeader > 0
    /\ Res.err = "unexpected EOF"
    /\ Res.pos = StreamLen(st)

\* The stream is whole frames one after the other: each header is
\* followed by as many payload bytes as it declares, at most
\* maxMessagePayload, and by nothing else.
WholeFrames ==
    /\ frames # <<>>
    /\ st.pad = 0
    /\ \A i \in 1..Len(frames) :
          IF frames[i].origin = "peer"
          THEN /\ frames[i].length = frames[i].size - headerSize
               /\ frames[i].length <= maxMessagePayload
          ELSE frames[i].err = "nil"

\* C17: on a stream of whole frames, the k-th ReadMessage call starts at
\* the k-th frame and ends where that frame ends, whether it returns the
\* message or an error; a frame WriteMessage wrote is returned whatever
\* was refused before it.
C17_FrameAligned ==
    (WholeFrames /\ lastRead.valid) =>
        LET k == lastRead.n IN
        /\ k <= Len(frames)
        /\ lastRead.start = frames[k].start
        /\ Res.pos = frames[k].start + frames[k].size
        /\ IF frames[k].origin = "WriteMessage"
           THEN frames[k].magic = btcnet => ReadBack(k)
           ELSE /\ HdrMagic = frames[k].magic
                /\ HdrLength = frames[k].length
                /\ HdrChecksum = frames[k].checksum
                /\ ~HeaderChecksPass => Res.err = RejectionExpected

\* A frame with a wrong checksum was refused and the frame after it was
\* returned by the second call.
C17_Witness ==
    /\ WholeFrames
    /\ Len(frames) = 2
    /\ lastRead.valid
    /\ lastRead.n = 2
    /\ frames[1].origin = "peer"
    /\ frames[1].magic = btcnet
    /\ frames[1].cmd = PadCommand(cmdVersion)
    /\ frames[1].length > 0
    /\ frames[1].checksum # SubSeq(DoubleSha256(SubSeq(FrameBytes(1), headerSize + 1,
                                                        frames[1].size)), 1, 4)
    /\ ReadBack(2)

\* BtcEncode of a version message succeeded.
EncodedOk == Encoded /\ codec.err = "nil"

\* The bytes of the longest payload BtcEncode writes: 32 of fixed-width
\* fields, two address records of 26, a length prefix of 3 and the longest
\* user agent.
LongestEncoding == 32 + (2 * netAddressSize) + 3 + MaxUserAgentLen

\* C19 as claimed: MaxPayloadLength(pver) is the length of the longest
\* payload BtcEncode writes, the one with the longest user agent.
C19_MaxIsWorstCase ==
    (EncodedOk /\ Len(codec.msg.UserAgent) = MaxUserAgentLen) =>
        Len(codec.bytes) = MsgVersionMaxPayloadLength(pver)

\* C19 amended: MaxPayloadLength(pver) is an upper bound that no payload
\* reaches: every payload BtcEncode writes has at most LongestEncoding
\* bytes, which is 6 bytes less than MaxPayloadLength(pver) below
\* NetAddressTimeVersion and 14 bytes less from it on.
C19_MaxIsUpperBound ==
    EncodedOk =>
        /\ Len(codec.bytes) <= LongestEncoding
        /\ Len(codec.msg.UserAgent) = MaxUserAgentLen => Len(codec.bytes) = LongestEncoding
        /\ Len(codec.bytes) < MsgVersionMaxPayloadLength(pver)
        /\ MsgVersionMaxPayloadLength(pver) - LongestEncoding
               = IF pver >= NetAddressTimeVersion THEN 14 ELSE 6

\* The longest user agent was encoded at a protocol version whose address
\* records may carry a timestamp.
C19_Witness ==
    /\ EncodedOk
    /\ pver >= NetAddressTimeVersion
    /\ Len(codec.msg.UserAgent) = MaxUserAgentLen
    /\ Len(codec.bytes) = LongestEncoding

\* WriteMessage call i was for a version message that BtcEncode accepts.
VersionEncodable(i) ==
    /\ frames[i].origin = "WriteMessage"
    /\ frames[i].msg.kind = "version"
    /\ BtcEncode(frames[i].msg, pver).err = "nil"

\* C20: the payload of a version message that BtcEncode accepts is within
\* MaxPayloadLength(pver) and within maxMessagePayload, so WriteMessage
\* does not refuse it, and ReadMessage at the same protocol version does
\* not refuse its frame for the length of the type.
C20_VersionWithinLimits ==
    /\ \A i \in 1..Len(frames) :
          VersionEncodable(i) =>
              LET payload == BtcEncode(frames[i].msg, pver).out IN
              /\ Len(payload) <= MsgVersionMaxPayloadLength(pver)
              /\ Len(payload) <= maxMessagePayload
              /\ frames[i].err = "nil"
              /\ frames[i].size = headerSize + Len(payload)
    /\ lastRead.valid =>
          \A i \in ReadFrames :
              VersionEncodable(i) =>
                  /\ Res.err # "payload exceeds max length"
                  /\ frames[i].magic = btcnet =>
                        /\ LengthWithinType
                        /\ {"MaxPayloadLength", "readPayload"} \subseteq Steps

\* The version message with the longest user agent was written and its
\* frame passed the length check of the type when read.
C20_Witness ==
    /\ lastRead.valid
    /\ \E i \in ReadFrames :
          /\ VersionEncodable(i)
          /\ frames[i].err = "nil"
          /\ frames[i].magic = btcnet
          /\ Len(frames[i].msg.UserAgent) = MaxUserAgentLen
          /\ "readPayload" \in Steps
          /\ Res.err = "nil"

\* C18: WriteMessage refuses a message whose command is longer than
\* commandSize (before it encodes it), whose BtcEncode fails (with that
\* error unchanged), whose payload is longer than maxMessagePayload, or
\* longer than the MaxPayloadLength of its type; a refused message leaves
\* the sink without a byte of it.  A command of exactly commandSize bytes
\* and a payload exactly at the maximum are written, as one header and the
\* payload.
C18_WriteRejections ==
    \A i \in 1..Len(frames) :
        LET msg  == frames[i].msg
            enc  == BtcEncode(msg, pver)
            lenp == Len(enc.out) + (IF msg.kind = "custom" THEN msg.zeros ELSE 0)
            refusal ==
                IF Len(Command(msg)) > commandSize THEN "command too long"
                ELSE IF enc.err # "nil" THEN enc.err
                ELSE IF lenp > maxMessagePayload THEN "payload too large"
                ELSE IF lenp > MaxPayloadLength(msg, pver)
                     THEN "payload too large for type"
                ELSE "nil"
        IN
        frames[i].origin = "WriteMessage" =>
            /\ frames[i].err = refusal
            /\ (frames[i].err # "nil") => (frames[i].size = 0)
            /\ (frames[i].err = "nil") => (frames[i].size = headerSize + lenp)
            /\ (i = Len(frames)) => (StreamLen(st) = frames[i].start + frames[i].size)

\* A payload of maxMessagePayload + 1 bytes under a type that would allow
\* it was refused, and the sink is empty.
C18_Witness ==
    /\ Len(frames) = 1
    /\ frames[1].origin = "WriteMessage"
    /\ frames[1].msg.kind = "custom"
    /\ frames[1].msg.zeros = maxMessagePayload + 1
    /\ frames[1].msg.maxPayload > maxMessagePayload
    /\ frames[1].err = "payload too large"
    /\ StreamLen(st) = 0

====
